---- MODULE Spec2Model ----
(***************************************************************************)
(* Model of the blackboard application (src/src/main.rs): the canvas       *)
(* (committed strokes, placed texts), the pointer/toolbar event handlers   *)
(* of BlackboardApp, and the GStreamer recording controller.               *)
(*                                                                         *)
(* Coordinates are pixel positions on an integer grid; on such values the  *)
(* f32 products and sums of erase_near are exact, and comparing the f32    *)
(* square root with the integral radius 20.0 is the same as comparing its  *)
(* integer part.                                                           *)
(***************************************************************************)
EXTENDS Integers, Sequences, FiniteSets, TLC

\* ------------------------------------------------------------------ bounds
MaxStrokes == 2
MaxPts == 3
MaxCanvasPts == 5
MaxTexts == 2
MaxPipes == 3
\* The canvases erase_near is tried on: at most so many strokes, of at most
\* so many points each.
MaxErased == 2
MaxErasedPts == 2
\* The longest text whose painted form is computed.
MaxTextLen == 3

\* ------------------------------------------------------------- input sets
\* Pointer positions. PA-PB are exactly erase_radius apart, PA-PC are 5 apart,
\* PB-PC are more than erase_radius apart (12*12 + 21*21 = 585 > 400).
PA == <<0, 5>>
PB == <<12, 21>>
PC == <<0, 0>>
Points == {PA, PB}
ErasePoints == {PA, PB, PC}
\* interact_pointer_pos() returning None
NoPos == <<>>

\* Contents of the text field: empty, or a two-character label.
TextInputs == {<<>>, <<"A", "B">>}
\* The characters of the texts that are painted.
Chars == {"A", "B"}
\* Values of the font-size slider (range 10.0..=100.0, initially 40.0).
Sizes == {40, 100}
\* Families listed by fc-list (available_fonts).
Fonts == {"FontA", "FontB"}
\* Option::None for selected_font; handle value of an empty gst_pipeline.
None == "None"
NoPipe == 0
\* Outcome of std::fs::read in set_selected_font.
ReadOutcomes == {"data", "empty", "err"}
\* Contents of the two target text fields, as the pipeline parser sees them.
Targets == {"valid", "malformed"}

erase_radius == 20

VARIABLES
    drawings,          \* Vec<Vec<Pos2>>: committed strokes
    current_line,      \* Vec<Pos2>: in-progress stroke
    placed_texts,      \* Vec<(Pos2, String, f32, TextOrientation, String)>
    text_input_mode,
    eraser_mode,
    text_input,
    font_size,
    text_orientation,
    selected_font,
    resolved_fonts,    \* families whose data was installed with set_fonts
    dragging,          \* egui: a drag of the canvas is in progress
    painted,           \* the text strings the last frame handed to the painter
    stale_points,      \* how many leading points of current_line were captured
                       \* before the drag now in progress (all of them between drags)
    pc,                \* where Clear or erase_near stands between its statements
    drawings_lock,     \* the Mutex around drawings is held
    recording_rtmp,
    recording_file,
    rtmp_url,
    output_file_path,
    gst_pipeline,      \* Option<gst::Pipeline>: NoPipe or a pipeline id
    pipes,             \* state of every pipeline instance built so far
    last               \* the handler that ran last and what it reported

canvasVars == <<drawings, current_line, placed_texts, dragging, painted, stale_points,
                pc, drawings_lock>>
modeVars == <<text_input_mode, eraser_mode>>
textVars == <<text_input, font_size, text_orientation, selected_font, resolved_fonts>>
recVars == <<recording_rtmp, recording_file, rtmp_url, output_file_path, gst_pipeline, pipes>>
vars == <<canvasVars, modeVars, textVars, recVars, last>>

\* ---------------------------------------------------------------- helpers
\* An observation of the handler that just ran: which one, the pointer
\* position it was given, whether it reported success, and what it did.
\* For an erase also how many strokes and texts it removed; for the recording
\* buttons also the handle held before the call (prev) and whether the call
\* before was a start that failed before a graph existed.
Observed(op, pos, ok, note, removed) ==
    [op |-> op, pos |-> pos, ok |-> ok, note |-> note, removed |-> removed,
     prev |-> 0, after |-> "none"]

Event(op, pos, ok, note) == Observed(op, pos, ok, note, <<0, 0>>)

StartOps == {"start_rtmp", "start_file"}
StopOps == {"stop_rtmp", "stop_file"}
EarlyFailures == {"init_err", "parse_err"}

FailedEarly(e) == e.op \in StartOps /\ e.note \in EarlyFailures /\ e.prev = 0

\* f32::sqrt of a non-negative integer, truncated: the largest k with k*k <= n.
RECURSIVE SqrtFrom(_, _)
SqrtFrom(n, k) == IF (k + 1) * (k + 1) > n THEN k ELSE SqrtFrom(n, k + 1)

Sqrt(n) == SqrtFrom(n, 0)

\* (dx * dx + dy * dy).sqrt()
DistanceOf(pt, pointer_pos) ==
    LET dx == pt[1] - pointer_pos[1]
        dy == pt[2] - pointer_pos[2]
    IN  Sqrt(dx * dx + dy * dy)

\* DistanceOf, computed once for every pair of positions the pointer takes.
DistanceTable == [pt \in ErasePoints, pointer_pos \in ErasePoints |-> DistanceOf(pt, pointer_pos)]

Distance(pt, pointer_pos) == DistanceTable[pt, pointer_pos]

\* LineHit with the boundary taken as a hit.
LineHitWrong(line, pointer_pos) ==
    \E i \in 1..Len(line) : Distance(line[i], pointer_pos) <= erase_radius

\* line.iter().any(|&pt| ... < erase_radius)
LineHit(line, pointer_pos) ==
    \E i \in 1..Len(line) : Distance(line[i], pointer_pos) < erase_radius

\* TextKept with the boundary taken as erased.
TextKeptWrong(t, pointer_pos) == Distance(t.pos, pointer_pos) > erase_radius

\* the retain predicate of placed_texts
TextKept(t, pointer_pos) == Distance(t.pos, pointer_pos) >= erase_radius

\* erase_near, the strokes half: drawings.retain(|line| !line.iter().any(..))
EraseDrawings(ds, pointer_pos) ==
    LET Keep(line) == ~LineHit(line, pointer_pos) IN SelectSeq(ds, Keep)

\* erase_near, the texts half: placed_texts.retain(..)
EraseTexts(ts, pointer_pos) ==
    LET Keep(t) == TextKept(t, pointer_pos) IN SelectSeq(ts, Keep)

\* The string painted for one annotation: the text as stored, or, when the
\* orientation is Vertical, its characters with a line break pushed before
\* every character but the first. n is how many characters the loop has seen.
RECURSIVE vertical_text(_, _)
vertical_text(text, n) ==
    IF n = 0 THEN <<>>
    ELSE LET i == n - 1
             sofar == vertical_text(text, n - 1)
         IN  Append(IF i > 0 THEN Append(sofar, "\n") ELSE sofar, text[n])

\* displayed_text that paints the stored text whatever the orientation.
displayed_text_plain(text, orientation) == text

displayed_text(text, orientation) ==
    IF orientation = "Horizontal" THEN text ELSE vertical_text(text, Len(text))

\* What the loop over placed_texts hands to the painter, one string per
\* annotation, in order.
Render(texts) ==
    [i \in 1..Len(texts) |-> displayed_text(texts[i].text, texts[i].orientation)]

Init ==
    /\ drawings = <<>>
    /\ current_line = <<>>
    /\ placed_texts = <<>>
    /\ text_input_mode = FALSE
    /\ eraser_mode = FALSE
    /\ text_input = <<>>
    /\ font_size = 40
    /\ text_orientation = "Horizontal"
    /\ selected_font = None
    /\ resolved_fonts = {}
    /\ dragging = FALSE
    /\ painted = Render(placed_texts)
    /\ stale_points = 0
    /\ pc = "idle"
    /\ drawings_lock = FALSE
    /\ recording_rtmp = FALSE
    /\ recording_file = FALSE
    /\ rtmp_url = "valid"
    /\ output_file_path = "valid"
    /\ gst_pipeline = NoPipe
    /\ pipes = <<>>
    /\ last = Event("new", NoPos, TRUE, "none")

\* --------------------------------------------------------- canvas handlers
\* What egui reports for the canvas in one frame.
Response(clicked, drag_started, dragged, drag_released, pos) ==
    [clicked |-> clicked, drag_started |-> drag_started, dragged |-> dragged,
     drag_released |-> drag_released, pos |-> pos]

DrawMode == ~eraser_mode /\ ~text_input_mode

\* the conditions under which a click pushes onto placed_texts
PlaceGuard(r) ==
    /\ text_input_mode /\ r.clicked /\ r.pos # NoPos
    /\ text_input # <<>> /\ selected_font # None

\* CommitGuard without the is_empty test.
CommitGuardWrong(r, line) == r.drag_released /\ DrawMode

\* CommitGuard without the test of the two mode flags.
CommitGuardAnyMode(r, line) == r.drag_released /\ line # <<>>

\* the conditions under which a release pushes current_line onto drawings
CommitGuard(r, line) == r.drag_released /\ DrawMode /\ line # <<>>

\* placed_text with the size the application starts with.
placed_text_default_size(pos) ==
    [pos |-> pos, text |-> text_input, size |-> 40,
     orientation |-> text_orientation, font |-> selected_font]

\* The tuple a placing click pushes onto placed_texts.
placed_text(pos) ==
    [pos |-> pos, text |-> text_input, size |-> font_size,
     orientation |-> text_orientation, font |-> selected_font]

\* How many points the strokes of ds hold together.
RECURSIVE PointsOn(_)
PointsOn(ds) == IF ds = <<>> THEN 0 ELSE Len(Head(ds)) + PointsOn(Tail(ds))

\* One frame of ui_central_panel, its blocks in source order.
ui_central_panel(r, op) ==
    LET \* place text on click
        placed == PlaceGuard(r)
        t1 == IF placed THEN Append(placed_texts, placed_text(r.pos)) ELSE placed_texts
        \* erase on click
        erase1 == eraser_mode /\ r.clicked /\ r.pos # NoPos
        d1 == IF erase1 THEN EraseDrawings(drawings, r.pos) ELSE drawings
        t2 == IF erase1 THEN EraseTexts(t1, r.pos) ELSE t1
        \* drag started
        begun == r.drag_started /\ DrawMode /\ r.pos # NoPos
        c1 == IF begun THEN <<r.pos>> ELSE current_line
        \* dragged
        erase2 == r.dragged /\ r.pos # NoPos /\ eraser_mode
        pushed == r.dragged /\ r.pos # NoPos /\ DrawMode
        d2 == IF erase2 THEN EraseDrawings(d1, r.pos) ELSE d1
        t3 == IF erase2 THEN EraseTexts(t2, r.pos) ELSE t2
        c2 == IF pushed THEN Append(c1, r.pos) ELSE c1
        \* drag released
        commit == CommitGuard(r, c2)
        d3 == IF commit THEN Append(d2, c2) ELSE d2
        c3 == IF commit THEN <<>> ELSE c2
        note == IF placed THEN "placed"
                ELSE IF text_input_mode /\ r.clicked /\ r.pos # NoPos THEN "rejected"
                ELSE IF erase1 \/ erase2 THEN "erase"
                ELSE IF commit THEN "commit"
                ELSE IF r.drag_released /\ DrawMode THEN "empty"
                ELSE IF begun THEN "begin"
                ELSE IF pushed THEN "push"
                ELSE "none"
    IN  /\ pc = "idle"
        /\ Len(d3) > Len(drawings) => Len(d3) <= MaxStrokes
        /\ Len(c3) > Len(current_line) =>
               Len(c3) <= MaxPts /\ PointsOn(d3) + Len(c3) <= MaxCanvasPts
        /\ Len(t3) > Len(placed_texts) => Len(t3) <= MaxTexts
        /\ drawings' = d3
        /\ current_line' = c3
        /\ placed_texts' = t3
        /\ painted' = Render(t3)
        /\ stale_points' = IF ~dragging' THEN Len(c3)
                           ELSE IF r.drag_started
                                THEN (IF begun THEN 0 ELSE Len(current_line))
                                ELSE stale_points
        /\ UNCHANGED <<pc, drawings_lock>>
        /\ last' = Observed(op, r.pos, TRUE, note,
                             <<Len(drawings) - Len(d2), Len(t1) - Len(t3)>>)
        /\ UNCHANGED <<modeVars, textVars, recVars>>

\* The pointer goes down on the canvas: drag_started(), and dragged() with it.
Press(p) ==
    /\ ~dragging
    /\ dragging' = TRUE
    /\ ui_central_panel(Response(FALSE, TRUE, TRUE, FALSE, p), "press")

\* The pointer moves while held down: dragged().
Move(p) ==
    /\ dragging
    /\ dragging' = TRUE
    /\ ui_central_panel(Response(FALSE, FALSE, TRUE, FALSE, p), "move")

\* The pointer is let go after a drag: drag_released().
Release ==
    /\ dragging
    /\ dragging' = FALSE
    /\ ui_central_panel(Response(FALSE, FALSE, FALSE, TRUE, NoPos), "release")

\* The pointer is let go without having moved: clicked(), ending the press.
ClickRelease(p) ==
    /\ dragging
    /\ dragging' = FALSE
    /\ ui_central_panel(Response(TRUE, FALSE, FALSE, TRUE, p), "click")

\* A press and its release that reach the handler in one frame: clicked(),
\* alone or with drag_released(), and no drag left in progress.
Click(p, released) ==
    /\ ~dragging
    /\ dragging' = FALSE
    /\ ui_central_panel(Response(TRUE, FALSE, FALSE, released, p), "click")

\* -------------------------------------------------------- toolbar handlers
\* Clear that also drops the recording: flags off and handle gone.
ClearStopsRecording ==
    /\ pc = "idle"
    /\ drawings' = <<>>
    /\ placed_texts' = <<>>
    /\ painted' = Render(<<>>)
    /\ recording_rtmp' = FALSE
    /\ recording_file' = FALSE
    /\ gst_pipeline' = NoPipe
    /\ last' = Event("clear", NoPos, TRUE, "none")
    /\ UNCHANGED <<current_line, dragging, stale_points, pc, drawings_lock,
                   modeVars, textVars, rtmp_url, output_file_path, pipes>>

\* "Clear"
Clear ==
    /\ pc = "idle"
    /\ drawings' = <<>>
    /\ placed_texts' = <<>>
    /\ painted' = Render(<<>>)
    /\ last' = Event("clear", NoPos, TRUE, "none")
    /\ UNCHANGED <<current_line, dragging, stale_points, pc, drawings_lock,
                   modeVars, textVars, recVars>>

\* The statements of "Clear" one at a time. The guard returned by lock() is a
\* temporary of the first statement and is dropped where that statement ends.
clear_lock ==
    /\ pc = "idle" /\ ~drawings_lock
    /\ drawings_lock' = TRUE
    /\ pc' = "clear_drawings"
    /\ last' = Event("clear", NoPos, TRUE, "lock")
    /\ UNCHANGED <<drawings, current_line, placed_texts, dragging, painted, stale_points,
                   modeVars, textVars, recVars>>

clear_drawings ==
    /\ pc = "clear_drawings"
    /\ drawings' = <<>>
    /\ drawings_lock' = FALSE
    /\ pc' = "clear_texts"
    /\ last' = Event("clear", NoPos, TRUE, "drawings")
    /\ UNCHANGED <<current_line, placed_texts, dragging, painted, stale_points,
                   modeVars, textVars, recVars>>

clear_texts ==
    /\ pc = "clear_texts"
    /\ placed_texts' = <<>>
    /\ pc' = "idle"
    /\ last' = Event("clear", NoPos, TRUE, "texts")
    /\ UNCHANGED <<drawings, current_line, dragging, painted, stale_points, drawings_lock,
                   modeVars, textVars, recVars>>

\* The statements of erase_near(pos) one at a time, as called from the canvas
\* in eraser mode. The guard lives in the block around the first retain.
erase_near_lock(p) ==
    /\ pc = "idle" /\ ~drawings_lock /\ eraser_mode
    /\ drawings_lock' = TRUE
    /\ pc' = "erase_drawings"
    /\ last' = Event("erase_near", p, TRUE, "lock")
    /\ UNCHANGED <<drawings, current_line, placed_texts, dragging, painted, stale_points,
                   modeVars, textVars, recVars>>

erase_near_drawings ==
    /\ pc = "erase_drawings"
    /\ drawings' = EraseDrawings(drawings, last.pos)
    /\ drawings_lock' = FALSE
    /\ pc' = "erase_texts"
    /\ last' = Event("erase_near", last.pos, TRUE, "drawings")
    /\ UNCHANGED <<current_line, placed_texts, dragging, painted, stale_points,
                   modeVars, textVars, recVars>>

erase_near_texts ==
    /\ pc = "erase_texts"
    /\ placed_texts' = EraseTexts(placed_texts, last.pos)
    /\ pc' = "idle"
    /\ last' = Event("erase_near", last.pos, TRUE, "texts")
    /\ UNCHANGED <<drawings, current_line, dragging, painted, stale_points, drawings_lock,
                   modeVars, textVars, recVars>>

\* The pass over drawings and placed_texts that paints the canvas: it takes
\* the lock for the strokes and reads the annotations after releasing it.
render ==
    /\ pc = "idle" /\ ~drawings_lock
    /\ painted' = Render(placed_texts)
    /\ last' = Event("render", NoPos, TRUE, "none")
    /\ UNCHANGED <<drawings, current_line, placed_texts, dragging, stale_points, pc,
                   drawings_lock, modeVars, textVars, recVars>>

\* ToggleText without the cross-clearing of eraser_mode.
ToggleTextWrong ==
    /\ text_input_mode' = ~text_input_mode
    /\ eraser_mode' = eraser_mode
    /\ last' = Event("toggle_text", NoPos, TRUE, IF eraser_mode THEN "over_eraser" ELSE "none")
    /\ UNCHANGED <<canvasVars, textVars, recVars>>

\* "Text: ON" / "Text: OFF"
ToggleText ==
    /\ text_input_mode' = ~text_input_mode
    /\ eraser_mode' = IF ~text_input_mode THEN FALSE ELSE eraser_mode
    /\ last' = Event("toggle_text", NoPos, TRUE, IF eraser_mode THEN "over_eraser" ELSE "none")
    /\ UNCHANGED <<canvasVars, textVars, recVars>>

\* "Eraser: ON" / "Eraser: OFF"
ToggleEraser ==
    /\ eraser_mode' = ~eraser_mode
    /\ text_input_mode' = IF ~eraser_mode THEN FALSE ELSE text_input_mode
    /\ last' = Event("toggle_eraser", NoPos, TRUE,
                      IF text_input_mode THEN "over_text" ELSE "none")
    /\ UNCHANGED <<canvasVars, textVars, recVars>>

\* The text field, shown in text mode only.
EditText(t) ==
    /\ text_input_mode
    /\ text_input' = t
    /\ last' = Event("edit_text", NoPos, TRUE, "none")
    /\ UNCHANGED <<canvasVars, modeVars, font_size, text_orientation, selected_font,
                   resolved_fonts, recVars>>

\* The font-size slider, shown in text mode only.
SlideSize(sz) ==
    /\ text_input_mode
    /\ font_size' = sz
    /\ last' = Event("slide_size", NoPos, TRUE, "none")
    /\ UNCHANGED <<canvasVars, modeVars, text_input, text_orientation, selected_font,
                   resolved_fonts, recVars>>

\* The two orientation radio buttons, shown in text mode only.
PickOrientation(o) ==
    /\ text_input_mode
    /\ text_orientation' = o
    /\ last' = Event("pick_orientation", NoPos, TRUE, "none")
    /\ UNCHANGED <<canvasVars, modeVars, text_input, font_size, selected_font,
                   resolved_fonts, recVars>>

\* set_selected_font: the family is in available_fonts; `read` is what
\* std::fs::read(path) gave. Only non-empty data installs the font.
set_selected_font(family, read) ==
    /\ resolved_fonts' = IF read = "data" THEN resolved_fonts \cup {family} ELSE resolved_fonts
    /\ selected_font' = family

\* SelectFont that also switches the annotations already placed to the family.
SelectFontRestyles(family, read) ==
    /\ text_input_mode
    /\ set_selected_font(family, read)
    /\ placed_texts' = [i \in 1..Len(placed_texts) |->
                           [placed_texts[i] EXCEPT !.font = family]]
    /\ last' = Event("select_font", NoPos, read = "data", read)
    /\ UNCHANGED <<drawings, current_line, dragging, painted, stale_points, pc,
                   drawings_lock, modeVars, text_input, font_size, text_orientation,
                   recVars>>

\* A family clicked in the font selector, shown in text mode only:
\* selectable_value stores the family, then set_selected_font loads it.
SelectFont(family, read) ==
    /\ text_input_mode
    /\ set_selected_font(family, read)
    /\ last' = Event("select_font", NoPos, read = "data", read)
    /\ UNCHANGED <<canvasVars, modeVars, text_input, font_size, text_orientation, recVars>>

\* ------------------------------------------------------ recording controller
\* What gst::init, gst::parse_launch and set_state(Playing) can do with a
\* target: a malformed target never gets past parse_launch.
StartOutcomes(target) ==
    IF target = "valid" THEN {"init_err", "parse_err", "state_err", "ok"}
    ELSE {"init_err", "parse_err"}

\* What set_state(Null) can do.
StopOutcomes == {"ok", "state_err"}

\* The result of a controller call: the handle and the pipeline instances
\* afterwards, and the Result it returns.
Outcome(handle, ps, ok) == [handle |-> handle, pipes |-> ps, ok |-> ok]

\* StartPipeline leaving a half-built graph behind when parse_launch fails.
StartPipelineLeaksOnParse(target, out) ==
    IF out = "init_err" THEN Outcome(gst_pipeline, pipes, FALSE)
    ELSE IF out = "parse_err" THEN Outcome(gst_pipeline, Append(pipes, "Partial"), FALSE)
    ELSE IF out = "state_err" THEN Outcome(gst_pipeline, Append(pipes, "Partial"), FALSE)
    ELSE Outcome(Len(pipes) + 1, Append(pipes, "Playing"), TRUE)

\* The body shared by start_recording_rtmp and start_recording_file:
\* gst::init()?, parse_launch(..)?, set_state(Playing)?, then the handle is
\* stored over whatever was held. A graph whose set_state failed is dropped
\* as it is; a handle that is overwritten is dropped without being stopped.
StartPipeline(target, out) ==
    IF out \in EarlyFailures THEN Outcome(gst_pipeline, pipes, FALSE)
    ELSE IF out = "state_err" THEN Outcome(gst_pipeline, Append(pipes, "Partial"), FALSE)
    ELSE Outcome(Len(pipes) + 1, Append(pipes, "Playing"), TRUE)

start_recording_rtmp(out) == StartPipeline(rtmp_url, out)

start_recording_file(out) == StartPipeline(output_file_path, out)

\* stop_recording reporting an error when there is nothing to stop.
stop_recording_fails_idle(out) ==
    IF gst_pipeline # NoPipe /\ out = "ok"
    THEN Outcome(NoPipe, [pipes EXCEPT ![gst_pipeline] = "Null"], TRUE)
    ELSE Outcome(gst_pipeline, pipes, FALSE)

\* stop_recording: with a handle, set_state(Null)? and then the handle is
\* dropped; without one, Ok(()).
stop_recording(out) ==
    IF gst_pipeline # NoPipe
    THEN IF out = "ok"
         THEN Outcome(NoPipe, [pipes EXCEPT ![gst_pipeline] = "Null"], TRUE)
         ELSE Outcome(gst_pipeline, pipes, FALSE)
    ELSE Outcome(NoPipe, pipes, TRUE)

RecEvent(op, res, note) ==
    [op |-> op, pos |-> NoPos, ok |-> res.ok, note |-> note, removed |-> <<0, 0>>,
     prev |-> gst_pipeline,
     after |-> IF FailedEarly(last) THEN "failed_start" ELSE "none"]

\* A recording button's handler: call the controller, then set the flag.
Recorded(res, op, note) ==
    /\ Len(res.pipes) <= MaxPipes
    /\ gst_pipeline' = res.handle
    /\ pipes' = res.pipes
    /\ last' = RecEvent(op, res, note)

\* "Start RTMP" / "Stop RTMP"
ClickRtmp ==
    /\ IF recording_rtmp
       THEN /\ \E out \in StopOutcomes :
                 Recorded(stop_recording(out), "stop_rtmp",
                          IF gst_pipeline = NoPipe THEN "ok" ELSE out)
            /\ recording_rtmp' = FALSE
       ELSE /\ \E out \in StartOutcomes(rtmp_url) :
                 Recorded(start_recording_rtmp(out), "start_rtmp", out)
            /\ recording_rtmp' = TRUE
    /\ UNCHANGED <<canvasVars, modeVars, textVars, recording_file, rtmp_url, output_file_path>>

\* "Start File" / "Stop File"
ClickFile ==
    /\ IF recording_file
       THEN /\ \E out \in StopOutcomes :
                 Recorded(stop_recording(out), "stop_file",
                          IF gst_pipeline = NoPipe THEN "ok" ELSE out)
            /\ recording_file' = FALSE
       ELSE /\ \E out \in StartOutcomes(output_file_path) :
                 Recorded(start_recording_file(out), "start_file", out)
            /\ recording_file' = TRUE
    /\ UNCHANGED <<canvasVars, modeVars, textVars, recording_rtmp, rtmp_url, output_file_path>>

\* The RTMP URL field.
EditUrl(t) ==
    /\ rtmp_url' = t
    /\ last' = Event("edit_url", NoPos, TRUE, "none")
    /\ UNCHANGED <<canvasVars, modeVars, textVars, recording_rtmp, recording_file,
                   output_file_path, gst_pipeline, pipes>>

\* The output file path field.
EditPath(t) ==
    /\ output_file_path' = t
    /\ last' = Event("edit_path", NoPos, TRUE, "none")
    /\ UNCHANGED <<canvasVars, modeVars, textVars, recording_rtmp, recording_file,
                   rtmp_url, gst_pipeline, pipes>>

\* ----------------------------------------------------------- specifications
\* All sequences over S of length at most n.
SeqsUpTo(S, n) == UNION {[1..k -> S] : k \in 0..n}

\* A canvas to erase on: some strokes through the erase points with a label
\* anchored where each stroke starts, and the eraser switched on.
InitErase ==
    /\ drawings \in SeqsUpTo(SeqsUpTo(ErasePoints, MaxErasedPts) \ {<<>>}, MaxErased)
    /\ placed_texts = [i \in 1..Len(drawings) |->
                          [pos |-> drawings[i][1], text |-> <<"A", "B">>, size |-> 40,
                           orientation |-> "Horizontal", font |-> "FontA"]]
    /\ current_line = <<>>
    /\ text_input_mode = FALSE
    /\ eraser_mode = TRUE
    /\ text_input = <<"A", "B">>
    /\ font_size = 40
    /\ text_orientation = "Horizontal"
    /\ selected_font = "FontA"
    /\ resolved_fonts = {"FontA"}
    /\ dragging = FALSE
    /\ painted = Render(placed_texts)
    /\ stale_points = 0
    /\ pc = "idle"
    /\ drawings_lock = FALSE
    /\ recording_rtmp = FALSE
    /\ recording_file = FALSE
    /\ rtmp_url = "valid"
    /\ output_file_path = "valid"
    /\ gst_pipeline = NoPipe
    /\ pipes = <<>>
    /\ last = Event("new", NoPos, TRUE, "none")

NextErase ==
    \/ \E p \in ErasePoints : Press(p)
    \/ \E p \in ErasePoints : Move(p)
    \/ \E p \in ErasePoints : ClickRelease(p)
    \/ \E p \in ErasePoints, released \in BOOLEAN : Click(p, released)

\* erase_near applied to every small canvas, by click and by drag.
SpecErase == InitErase /\ [][NextErase]_vars

NextDraw ==
    \/ \E p \in Points \cup {NoPos} : Press(p)
    \/ \E p \in Points \cup {NoPos} : Move(p)
    \/ Release
    \/ \E p \in Points \cup {NoPos} : ClickRelease(p)
    \/ \E p \in Points \cup {NoPos}, released \in BOOLEAN : Click(p, released)
    \/ Clear
    \/ ToggleText
    \/ ToggleEraser

NextText ==
    \/ \E p \in Points \cup {NoPos}, released \in BOOLEAN : Click(p, released)
    \/ Clear
    \/ ToggleText
    \/ ToggleEraser
    \/ \E t \in TextInputs : EditText(t)
    \/ \E sz \in Sizes : SlideSize(sz)
    \/ \E o \in {"Horizontal", "Vertical"} : PickOrientation(o)
    \/ \E f \in Fonts, read \in ReadOutcomes : SelectFont(f, read)

NextRec ==
    \/ ClickRtmp
    \/ ClickFile
    \/ \E t \in Targets : EditUrl(t)
    \/ \E t \in Targets : EditPath(t)

Next == NextDraw \/ NextText \/ NextRec

\* The whole application: every handler, from the constructed state.
Spec == Init /\ [][Next]_vars

\* The handlers fall into three groups, each writing only its own variables
\* (see their UNCHANGED clauses); the specifications below run one group each.

\* Pointer and mode events on the canvas.
SpecDraw == Init /\ [][NextDraw]_vars

\* Text placement and its settings.
SpecText == Init /\ [][NextText]_vars

\* The recording buttons.
SpecRec == Init /\ [][NextRec]_vars

NextPlace ==
    \/ \E p \in Points : Click(p, FALSE)
    \/ ToggleText
    \/ \E t \in TextInputs : EditText(t)
    \/ \E sz \in Sizes : SlideSize(sz)
    \/ \E o \in {"Horizontal", "Vertical"} : PickOrientation(o)
    \/ \E f \in Fonts : SelectFont(f, "data")

\* Clicks on the canvas between changes of the text settings, every font
\* file readable.
SpecPlace == Init /\ [][NextPlace]_vars

\* A canvas holding one annotation, of any short text and either orientation,
\* as the frame that placed it painted it.
InitRender ==
    /\ drawings = <<>>
    /\ placed_texts \in {<<[pos |-> PA, text |-> t, size |-> 40, orientation |-> o,
                             font |-> "FontA"]>> :
                             t \in SeqsUpTo(Chars, MaxTextLen) \ {<<>>},
                             o \in {"Horizontal", "Vertical"}}
    /\ current_line = <<>>
    /\ text_input_mode = FALSE
    /\ eraser_mode = FALSE
    /\ text_input = <<>>
    /\ font_size = 40
    /\ text_orientation = "Horizontal"
    /\ selected_font = "FontA"
    /\ resolved_fonts = {"FontA"}
    /\ dragging = FALSE
    /\ painted = Render(placed_texts)
    /\ stale_points = 0
    /\ pc = "idle"
    /\ drawings_lock = FALSE
    /\ recording_rtmp = FALSE
    /\ recording_file = FALSE
    /\ rtmp_url = "valid"
    /\ output_file_path = "valid"
    /\ gst_pipeline = NoPipe
    /\ pipes = <<>>
    /\ last = Event("new", NoPos, TRUE, "none")

NextRender ==
    \/ render
    \/ \E p \in Points : Press(p)
    \/ \E p \in Points : Move(p)
    \/ Release
    \/ \E p \in Points : Click(p, FALSE)
    \/ ToggleEraser

\* Frames painted over a canvas that holds an annotation.
SpecRender == InitRender /\ [][NextRender]_vars

\* States the application can be in, one from every combination of: a canvas
\* empty or holding a stroke, a buffer empty or holding two points, a drag in
\* progress or not, each mode, an annotation placed or none, a text typed or
\* none, and the recording controller idle, recording to either target, or
\* left by a start that failed to parse its target.
InitStep ==
    /\ drawings \in {<<>>, <<(<<PA, PA, PB>>)>>}
    /\ current_line \in {<<>>, <<PB, PB>>}
    /\ placed_texts \in {<<>>, <<[pos |-> PA, text |-> <<"A", "B">>, size |-> 40,
                                  orientation |-> "Horizontal", font |-> "FontA"]>>}
    /\ \E m \in {<<FALSE, FALSE>>, <<TRUE, FALSE>>, <<FALSE, TRUE>>} :
           text_input_mode = m[1] /\ eraser_mode = m[2]
    /\ text_input \in TextInputs
    /\ font_size = 40
    /\ text_orientation = "Horizontal"
    /\ selected_font = "FontA"
    /\ resolved_fonts = {"FontA"}
    /\ dragging \in BOOLEAN
    /\ painted = Render(placed_texts)
    /\ stale_points = IF dragging THEN 0 ELSE Len(current_line)
    /\ pc = "idle"
    /\ drawings_lock = FALSE
    /\ \E c \in {<<FALSE, FALSE, NoPipe, <<>>>>,
                   <<TRUE, FALSE, 1, <<"Playing">>>>,
                   <<FALSE, TRUE, 1, <<"Playing">>>>,
                   <<TRUE, FALSE, NoPipe, <<>>>>} :
           /\ recording_rtmp = c[1] /\ recording_file = c[2]
           /\ gst_pipeline = c[3] /\ pipes = c[4]
    /\ rtmp_url \in Targets
    /\ output_file_path \in Targets
    /\ last = Event("new", NoPos, TRUE, "none")

\* One event, of any kind, in such a state: the first after it.
NextStep == last.op = "new" /\ Next

\* Every handler applied once to each of these states.
SpecStep == InitStep /\ [][NextStep]_vars

NextLock ==
    \/ clear_lock
    \/ clear_drawings
    \/ clear_texts
    \/ \E p \in ErasePoints : erase_near_lock(p)
    \/ erase_near_drawings
    \/ erase_near_texts
    \/ render

\* Clear and erase_near statement by statement, on every small canvas.
SpecLock == InitErase /\ [][NextLock]_vars

\* -------------------------------------------------------------------- claims
\* C1: eraser mode and text-input mode are never both on; after a click on
\* either toggle the other mode is off (switched on, it forces the other off;
\* switched off, both are off).
C1_ModesExclusive ==
    /\ ~(eraser_mode /\ text_input_mode)
    /\ last.op = "toggle_eraser" => ~text_input_mode
    /\ last.op = "toggle_text" => ~eraser_mode

\* C1 witnesses: each toggle switched on while the other mode was on is
\* followed by the other being off; here the eraser has just replaced text mode
\* with a drag still in progress.
C1_Witness ==
    /\ last.op = "toggle_eraser" /\ last.note = "over_text"
    /\ eraser_mode /\ ~text_input_mode /\ dragging

\* The exact squared Euclidean distance between two grid points.
SqDist(a, b) == (a[1] - b[1]) * (a[1] - b[1]) + (a[2] - b[2]) * (a[2] - b[2])

\* Some point of the stroke lies in the open disk of radius erase_radius.
InOpenDisk(line, p) ==
    \E i \in 1..Len(line) : SqDist(line[i], p) < erase_radius * erase_radius

\* `after` is `before` with exactly the elements at the indices in `gone`
\* removed, the others in their order.
RemovedExactly(before, after, gone) ==
    LET kept == (1..Len(before)) \ gone
        Nth(j) == CHOOSE i \in kept : Cardinality({k \in kept : k < i}) = j - 1
    IN  /\ Len(after) = Cardinality(kept)
        /\ \A j \in 1..Len(after) : after[j] = before[Nth(j)]

\* C2: an erase at p removes exactly the strokes with a point at distance
\* strictly less than erase_radius from p, whole, and keeps every other stroke
\* (one whose nearest point is exactly erase_radius away included), in order.
C2_EraseStrokesExact ==
    [][last'.note = "erase" =>
         RemovedExactly(drawings, drawings',
                        {i \in 1..Len(drawings) : InOpenDisk(drawings[i], last'.pos)})]_vars

\* C2 witness: after an erase a stroke survives although one of its points is
\* exactly erase_radius from the erase point, while another stroke is gone.
C2_Witness ==
    /\ last.note = "erase"
    /\ last.removed[1] > 0
    /\ Len(drawings) = 1
    /\ \E i \in 1..Len(drawings[1]) :
          SqDist(drawings[1][i], last.pos) = erase_radius * erase_radius

\* C3: an erase at p retains exactly the annotations anchored at distance
\* greater than or equal to erase_radius from p, in order, and removes the rest.
C3_EraseTextsExact ==
    [][last'.note = "erase" =>
         RemovedExactly(placed_texts, placed_texts',
                        {i \in 1..Len(placed_texts) :
                            SqDist(placed_texts[i].pos, last'.pos)
                                < erase_radius * erase_radius})]_vars

\* C3 witness: after an erase an annotation anchored exactly erase_radius from
\* the erase point is still there.
C3_Witness ==
    /\ last.note = "erase"
    /\ last.removed[2] > 0
    /\ \E i \in 1..Len(placed_texts) :
          SqDist(placed_texts[i].pos, last.pos) = erase_radius * erase_radius

\* C4: every stroke stored in the canvas has at least one point.
C4_NoEmptyStroke ==
    \A i \in 1..Len(drawings) : drawings[i] # <<>>

\* C4 witness: a drag was released in plain drawing mode with an empty
\* in-progress buffer, and the canvas holds no stroke.
C4_Witness ==
    last.note = "empty" /\ current_line = <<>> /\ drawings = <<>>

\* C5: every stored annotation has non-empty text and a font whose data was
\* loaded successfully.
C5_AnnotationsResolved ==
    \A i \in 1..Len(placed_texts) :
        placed_texts[i].text # <<>> /\ placed_texts[i].font \in resolved_fonts

\* C6: every pipeline instance in the running state is the one the
\* controller's handle references, so at most one is running.
C6_SingleRunningPipeline ==
    \A i \in 1..Len(pipes) : pipes[i] = "Playing" => i = gst_pipeline

\* C7: after a start that returned an error the button's recording flag is in
\* its prior state, not recording.
C7_FailedStartKeepsToggle ==
    /\ (last.op = "start_rtmp" /\ ~last.ok) => ~recording_rtmp
    /\ (last.op = "start_file" /\ ~last.ok) => ~recording_file

\* C8: after any stop() call, successful or failed, the handle is empty.
C8_StopDropsHandle ==
    last.op \in StopOps => gst_pipeline = NoPipe

\* C9: a start that fails at initialization or at parse, issued with no handle
\* held, leaves the handle empty and the pipeline instances as they were; and a
\* start issued right after it whose subsystem calls all succeed returns Ok,
\* holds a fresh instance in the running state and touches no other instance.
C9_FailedStartLeavesStopped ==
    [][/\ FailedEarly(last') => gst_pipeline' = NoPipe /\ pipes' = pipes
       /\ (FailedEarly(last) /\ last'.op \in StartOps /\ last'.note = "ok") =>
              /\ last'.ok
              /\ gst_pipeline' = Len(pipes) + 1
              /\ pipes' = Append(pipes, "Playing")]_vars

\* C9 witness: a start has succeeded right after one that failed early from
\* Stopped; the only pipeline instance there is is the running one it holds.
C9_Witness ==
    /\ last.op \in StartOps /\ last.ok /\ last.after = "failed_start"
    /\ pipes = <<"Playing">> /\ gst_pipeline = 1

\* C10: stop() called with no handle held returns success and leaves the
\* handle empty and every pipeline instance as it was.
C10_StopIdleIsNoop ==
    [][(last'.op \in StopOps /\ gst_pipeline = NoPipe) =>
           last'.ok /\ gst_pipeline' = NoPipe /\ pipes' = pipes]_vars

\* C10 witness: after a start and a successful stop, a further stop ran with
\* no handle held and returned success.
C10_Witness ==
    /\ last.op \in StopOps /\ last.prev = NoPipe /\ last.ok
    /\ gst_pipeline = NoPipe
    /\ pipes = <<"Null">>

\* C11: once a stop() call has returned successfully, no pipeline instance
\* created by an earlier start is in the running state.
C11_NoPipelineOutlivesStop ==
    (last.op \in StopOps /\ last.ok) => \A i \in 1..Len(pipes) : pipes[i] # "Playing"

\* C12: when start built the graph but the transition to the running state
\* failed, the graph has been brought to the halted state when start returns,
\* and the handle does not reference it.
C12_FailedTransitionTornDown ==
    (last.op \in StartOps /\ last.note = "state_err") =>
        /\ pipes[Len(pipes)] = "Null"
        /\ gst_pipeline # Len(pipes)

\* C18: no event that occurs while eraser mode or text mode is on appends a
\* stroke to the canvas or touches the in-progress buffer; in particular the
\* release of a drag during which such a mode was switched on commits nothing
\* and leaves the buffer's points as they were.
C18_NoCommitOutsideDrawMode ==
    [][(eraser_mode \/ text_input_mode) =>
           /\ Len(drawings') <= Len(drawings)
           /\ current_line' = current_line]_vars

\* C18 witness: a drag begun in plain drawing mode has been released after a
\* mode was switched on; nothing was committed and the buffer still holds
\* the drag's points.
C18_Witness ==
    /\ last.op = "release" /\ last.note = "none"
    /\ eraser_mode \/ text_input_mode
    /\ current_line # <<>> /\ drawings = <<>>

\* C19: a recording flag is set if and only if the controller holds a pipeline
\* handle, and the two recording flags are never both set.
C19_FlagsMatchHandle ==
    /\ (recording_rtmp \/ recording_file) <=> (gst_pipeline # NoPipe)
    /\ ~(recording_rtmp /\ recording_file)

\* C14: a click that places text appends exactly one annotation, at the click
\* position, holding the text, size, orientation and font configured at that
\* moment, and changes none of those four settings nor either mode flag; so
\* consecutive clicks append annotations with the same text.
C14_PlacementAppendsConfigured ==
    [][last'.note = "placed" =>
           /\ placed_texts' = Append(placed_texts,
                                     [pos |-> last'.pos, text |-> text_input,
                                      size |-> font_size,
                                      orientation |-> text_orientation,
                                      font |-> selected_font])
           /\ UNCHANGED <<text_input, font_size, text_orientation, selected_font>>
           /\ UNCHANGED <<text_input_mode, eraser_mode>>]_vars

\* C14 witness: two clicks in a row have each placed an annotation; the two
\* carry the same text and text mode is still on.
C14_Witness ==
    /\ last.op = "click" /\ last.note = "placed"
    /\ Len(placed_texts) = 2
    /\ placed_texts[1].text = placed_texts[2].text
    /\ placed_texts[1].pos # placed_texts[2].pos
    /\ text_input_mode /\ text_input = placed_texts[2].text

\* C15: what is painted for an annotation is its stored text when the
\* orientation is Horizontal; when it is Vertical it is the stored characters
\* in order with exactly one line break between neighbours, none before the
\* first and none after the last. The stored text holds no line break of its
\* own: painting does not write back into it.
C15_DisplayForm ==
    /\ Len(painted) = Len(placed_texts)
    /\ \A i \in 1..Len(painted) :
           LET t == placed_texts[i].text
               d == painted[i]
           IN  /\ \A k \in 1..Len(t) : t[k] # "\n"
               /\ placed_texts[i].orientation = "Horizontal" => d = t
               /\ placed_texts[i].orientation = "Vertical" =>
                      /\ Len(d) = IF t = <<>> THEN 0 ELSE 2 * Len(t) - 1
                      /\ \A k \in 1..Len(t) : d[2 * k - 1] = t[k]
                      /\ \A k \in 1..(Len(t) - 1) : d[2 * k] = "\n"

\* C15 witness: a frame of a drag has painted a Vertical annotation of three
\* characters as five, and the annotation still holds the three.
C15_Witness ==
    /\ last.op = "move"
    /\ Len(painted) = 1
    /\ placed_texts[1].orientation = "Vertical"
    /\ placed_texts[1].text = <<"A", "B", "A">>
    /\ painted[1] = <<"A", "\n", "B", "\n", "A">>

C20_StrokeFromOneDrag ==
    [][last'.note = "commit" => stale_points = 0]_vars

\* new is old, or old with one element appended at the end
KeptOrAppended(old, new) ==
    \/ new = old
    \/ Len(new) = Len(old) + 1 /\ SubSeq(new, 1, Len(old)) = old

\* C13: in every step the strokes and the annotations each stay as they are,
\* or get exactly one element appended at the end (strokes by a commit,
\* annotations by a text placement), or get shorter, and that only by
\* erase_near or Clear. Mode toggles, the text settings, font selection,
\* pointer moves while drawing and the recording buttons change neither.
C13_CanvasAppendOnly ==
    [][/\ \/ KeptOrAppended(drawings, drawings')
          \/ /\ Len(drawings') < Len(drawings)
             /\ last'.note = "erase" \/ last'.op = "clear"
       /\ \/ KeptOrAppended(placed_texts, placed_texts')
          \/ /\ Len(placed_texts') < Len(placed_texts)
             /\ last'.note = "erase" \/ last'.op = "clear"
       /\ Len(drawings') > Len(drawings) => last'.note = "commit"
       /\ Len(placed_texts') > Len(placed_texts) => last'.note = "placed"
       /\ last'.op \notin {"press", "move", "release", "click", "clear"} =>
              UNCHANGED <<drawings, placed_texts>>]_vars

\* C13 witness: a release has committed the buffer as the second stroke,
\* behind the stroke that was there, with an annotation on the canvas.
C13_Witness ==
    /\ last.op = "release" /\ last.note = "commit"
    /\ drawings = <<(<<PA, PA, PB>>), <<PB, PB>>>>
    /\ placed_texts # <<>>

\* C16: a click on a recording button, whether the start or stop it calls
\* succeeds or fails, leaves strokes, annotations, the in-progress stroke and
\* both mode flags as they were; every pointer event on the canvas, Clear and
\* either mode toggle leaves the pipeline handle and both recording flags as
\* they were.
C16_RecordingIndependent ==
    [][/\ last'.op \in StartOps \cup StopOps =>
              UNCHANGED <<drawings, placed_texts, current_line,
                          text_input_mode, eraser_mode>>
       /\ last'.op \in {"press", "move", "release", "click", "clear",
                        "toggle_text", "toggle_eraser"} =>
              UNCHANGED <<gst_pipeline, recording_rtmp, recording_file>>]_vars

\* C16 witness: Clear has emptied a canvas while a recording runs; the handle
\* and the flag are still there.
C16_Witness ==
    /\ last.op = "clear"
    /\ recording_file /\ gst_pipeline # NoPipe /\ pipes[gst_pipeline] = "Playing"
    /\ current_line # <<>> /\ eraser_mode

====
